---------------------------- MODULE Spec2Model ----------------------------
(***************************************************************************)
(* Model of the directory synchronisation engine of src/Python/file-sync.py *)
(* (class FileSync): the two directory trees, the five counters, and the    *)
(* three policies mirror_sync, backup_sync and two_way_sync, stepped one     *)
(* loop iteration at a time.                                                *)
(***************************************************************************)
EXTENDS Integers, Sequences, FiniteSets, TLC

(***************************************************************************)
(* Bounds of the model.                                                    *)
(***************************************************************************)
\* number of distinct file contents (bytes of a file, abstracted)
MaxContent == 2
\* the largest number of runs made one after the other
MaxRuns == 2
\* the largest number of paths given with -e / --exclude
MaxExclusions == 1

\* modification times: an older and a newer one
Mtimes == { 1, 2 }

(***************************************************************************)
(* Paths.  A relative path is a sequence of names; <<>> is the root that    *)
(* was handed to FileSync.  The universe holds a plain name "a" nested      *)
(* three deep and a dot-name ".g" (excluded by should_exclude) with a       *)
(* plain child, and the log file of the run (line 48: sync-log-<time>.txt  *)
(* in the working directory), which is under a root only when the program  *)
(* is run from there.                                                      *)
(***************************************************************************)
Root == << >>

LogPath == <<"sync-log.txt">>

PathU ==
    { Root, <<"a">>, <<"a", "a">>, <<"a", "a", "a">>, <<".g">>, <<".g", "a">>, LogPath }

\* paths that may be populated before the run starts
InitPaths == PathU \ { <<"a", "a", "a">>, LogPath }

\* the same without the entry below the dot-directory
ShallowPaths == InitPaths \ { <<".g", "a">> }

\* paths that may hold a directory before the run starts
InitDirPaths == { Root, <<"a">>, <<"a", "a">>, <<".g">> }

Sides == { "source", "target" }

Other(side) == IF side = "source" THEN "target" ELSE "source"

\* pathlib: path.parent
Parent(p) == IF p = Root THEN Root ELSE SubSeq(p, 1, Len(p) - 1)

\* pathlib: path.name
Name(p) == p[Len(p)]

\* q is p or lies under p
IsPrefix(p, q) == Len(p) <= Len(q) /\ SubSeq(q, 1, Len(p)) = p

Children(p) == { q \in PathU : q # Root /\ Parent(q) = p /\ q # p }

(***************************************************************************)
(* Nodes of a tree: nothing, a directory, or a regular file with its bytes  *)
(* and its modification time.                                               *)
(***************************************************************************)
NoNode == [kind |-> "none", content |-> 0, mtime |-> 0]

DirNode == [kind |-> "dir", content |-> 0, mtime |-> 0]

FileNode(c, m) == [kind |-> "file", content |-> c, mtime |-> m]

FileNodes == { FileNode(c, m) : c \in 1..MaxContent, m \in Mtimes }

\* a tree is well formed when every present node has a directory as parent
WellFormed(tree) ==
    \A p \in PathU \ {Root} :
        tree[p].kind # "none" => tree[Parent(p)].kind = "dir"

\* the trees a run may start from
AllInitTrees ==
    { [p \in PathU |-> IF p \in InitPaths THEN t[p] ELSE NoNode] :
        t \in { u \in [InitPaths -> {NoNode, DirNode} \cup FileNodes] :
                  /\ u[Root].kind # "file"
                  /\ \A p \in InitPaths \ {Root} :
                        u[p].kind # "none" => u[Parent(p)].kind = "dir"
                  /\ \A p \in InitPaths \ InitDirPaths : u[p].kind # "dir" } }

\* the trees whose entries all lie in P
InitTrees(P) == { t \in AllInitTrees : \A p \in PathU \ P : t[p] = NoNode }

\* pathlib: Path.exists(), Path.is_file(), Path.is_dir()
PathExists(tree, p) == tree[p].kind # "none"

IsFile(tree, p) == tree[p].kind = "file"

IsDir(tree, p) == tree[p].kind = "dir"

\* mutant of HasEntries: every directory is taken to be empty
HasEntriesNever(tree, p) == FALSE

\* pathlib: any(path.iterdir())
HasEntries(tree, p) == \E q \in Children(p) : tree[q].kind # "none"

\* pathlib: root.rglob('*'): every entry below the root, hidden ones included
RGlob(tree) == { p \in PathU \ {Root} : tree[p].kind # "none" }

\* files of a tree, as relative paths
FilePaths(tree) == { p \in PathU : tree[p].kind = "file" }

(***************************************************************************)
(* Order of pathlib paths (compared part by part, code point order), used   *)
(* by sorted(..., reverse=True) in mirror_sync.                            *)
(***************************************************************************)
NameRank(n) == IF n = ".g" THEN 1 ELSE IF n = "a" THEN 2 ELSE 3

RECURSIVE PathLess(_, _)
PathLess(p, q) ==
    IF p = << >> THEN q # << >>
    ELSE IF q = << >> THEN FALSE
    ELSE IF NameRank(Head(p)) # NameRank(Head(q))
         THEN NameRank(Head(p)) < NameRank(Head(q))
         ELSE PathLess(Tail(p), Tail(q))

\* mutant of LastSorted: sorted(S) without reverse=True, parents first
FirstSorted(S) == CHOOSE p \in S : \A q \in S \ {p} : PathLess(p, q)

\* first element of sorted(S, reverse=True)
LastSorted(S) == CHOOSE p \in S : \A q \in S \ {p} : PathLess(q, p)


(***************************************************************************)
(* State of one FileSync object and of the file system it works on.        *)
(***************************************************************************)
VARIABLES
    fs,         \* fs[side][path]: the source tree and the target tree
    mode,       \* self.mode
    dry_run,    \* self.dry_run
    stats,      \* self.stats
    excluded,   \* self.excluded_files \cup self.excluded_dirs, as <<side, path>>
    pc,         \* position in run_sync
    pending,    \* entries the current loop has still to visit
    all_files,  \* two_way_sync: relative path -> side holding the retained entry
    fs0,        \* the trees when the current run started
    run,        \* number of the current run
    first,      \* the stats the first run returned
    fault,      \* the operation that failed in the latest loop iteration
    copying     \* the copy_file call that has compared and not yet copied

vars ==
    << fs, mode, dry_run, stats, excluded, pc, pending, all_files, fs0, run, first, fault,
       copying >>

\* no copy_file call is between its comparison and its copy
NoCopy == [from |-> "none", p |-> << >>, seen |-> NoNode, raced |-> FALSE]

Counters == { "copied", "updated", "deleted", "skipped", "errors" }

\* FileSync.__init__: self.stats
ZeroStats == [c \in Counters |-> 0]

\* self.stats[c] += 1
Bump(st, c) == [st EXCEPT ![c] = @ + 1]

Modes == { "mirror", "backup", "sync" }

(***************************************************************************)
(* FileSync.get_file_hash: the digest of a file's bytes, None (0) when the  *)
(* path cannot be opened and read as a file.                               *)
(***************************************************************************)
get_file_hash(node) == IF node.kind = "file" THEN node.content ELSE 0

(***************************************************************************)
(* FileSync.should_exclude: by name, or by membership of the resolved path  *)
(* in the user's exclusion sets.  Only the path itself is looked at, never  *)
(* its ancestors.                                                          *)
(***************************************************************************)
NameExcluded(n) == n = ".g"

should_exclude(excl, side, p) == NameExcluded(Name(p)) \/ <<side, p>> \in excl

(***************************************************************************)
(* Path.mkdir(parents=True, exist_ok=True) on path p of a tree.            *)
(***************************************************************************)
RECURSIVE Mkdir(_, _)
Mkdir(tree, p) ==
    IF tree[p].kind = "dir" THEN [ok |-> TRUE, tree |-> tree]
    ELSE IF tree[p].kind = "file" THEN [ok |-> FALSE, tree |-> tree]
    ELSE IF p = Root THEN [ok |-> TRUE, tree |-> [tree EXCEPT ![p] = DirNode]]
    ELSE LET up == Mkdir(tree, Parent(p))
         IN  IF up.ok
             THEN [ok |-> TRUE, tree |-> [up.tree EXCEPT ![p] = DirNode]]
             ELSE [ok |-> FALSE, tree |-> tree]

(***************************************************************************)
(* shutil.copy2(src, dst): when dst is a directory the file goes inside it  *)
(* under the source's base name; bytes and modification time are copied.   *)
(***************************************************************************)
Copy2Dest(tree, sp, tp) == IF IsDir(tree, tp) THEN Append(tp, Name(sp)) ELSE tp

\* mutant of Copy2: a directory standing at the destination is removed and
\* replaced by the file
Copy2Replacing(snode, sp, tree, tp) ==
    IF snode.kind # "file" THEN [ok |-> FALSE, tree |-> tree]
    ELSE [ok |-> TRUE,
          tree |-> [q \in PathU |->
                      IF q = tp THEN FileNode(snode.content, snode.mtime)
                      ELSE IF IsPrefix(tp, q) THEN NoNode
                      ELSE tree[q]]]

Copy2(snode, sp, tree, tp) ==
    LET dst == Copy2Dest(tree, sp, tp)
    IN  IF snode.kind # "file" \/ IsDir(tree, dst)
        THEN [ok |-> FALSE, tree |-> tree]
        ELSE [ok |-> TRUE,
              tree |-> [tree EXCEPT ![dst] = FileNode(snode.content, snode.mtime)]]

\* st_size of a file (line 227): contents 1 and 2 have the same length
Size(node) == (node.content + 1) \div 2

\* mutant of SameHash: equal size and modification time end the comparison
SameSizeAndMtimeOrHash(snode, tnode) ==
    \/ Size(snode) = Size(tnode) /\ snode.mtime = tnode.mtime
    \/ get_file_hash(snode) = get_file_hash(tnode)

\* mutant of SameHash: the modification times must agree as well
SameHashAndMtime(snode, tnode) ==
    get_file_hash(snode) = get_file_hash(tnode) /\ snode.mtime = tnode.mtime

\* copy_file, line 106: the two digests are equal
SameHash(snode, tnode) == get_file_hash(snode) = get_file_hash(tnode)

\* copy_file, lines 115-120: the counter a completed copy is booked under
CopyCounter(tree, tp) == IF PathExists(tree, tp) THEN "updated" ELSE "copied"

\* mutant of copy_file: the source file is stamped with the latest
\* modification time once it was copied
copy_file_stamping(f, st, dry, s, sp, t, tp) ==
    LET mk == Mkdir(f[t], Parent(tp))
    IN  IF ~mk.ok THEN [fs |-> f, stats |-> Bump(st, "errors")]
        ELSE
        LET f1 == [f EXCEPT ![t] = mk.tree]
        IN  IF PathExists(f1[t], tp) /\ SameHash(f1[s][sp], f1[t][tp])
            THEN [fs |-> f1, stats |-> Bump(st, "skipped")]
            ELSE
            LET cp == IF dry THEN [ok |-> TRUE, tree |-> f1[t]]
                      ELSE Copy2(f1[s][sp], sp, f1[t], tp)
                f2 == [f1 EXCEPT ![t] = cp.tree, ![s][sp].mtime = 2]
            IN  IF ~cp.ok THEN [fs |-> f1, stats |-> Bump(st, "errors")]
                ELSE [fs |-> f2, stats |-> Bump(st, CopyCounter(f2[t], tp))]

\* mutant of copy_file: the file is moved (shutil.move), not copied
copy_file_moving(f, st, dry, s, sp, t, tp) ==
    LET mk == Mkdir(f[t], Parent(tp))
    IN  IF ~mk.ok THEN [fs |-> f, stats |-> Bump(st, "errors")]
        ELSE
        LET f1 == [f EXCEPT ![t] = mk.tree]
        IN  IF PathExists(f1[t], tp) /\ SameHash(f1[s][sp], f1[t][tp])
            THEN [fs |-> f1, stats |-> Bump(st, "skipped")]
            ELSE
            LET cp == IF dry THEN [ok |-> TRUE, tree |-> f1[t]]
                      ELSE Copy2(f1[s][sp], sp, f1[t], tp)
                f2 == [f1 EXCEPT ![t] = cp.tree,
                                 ![s][sp] = IF dry THEN @ ELSE NoNode]
            IN  IF ~cp.ok THEN [fs |-> f1, stats |-> Bump(st, "errors")]
                ELSE [fs |-> f2, stats |-> Bump(st, CopyCounter(f2[t], tp))]

(***************************************************************************)
(* FileSync.copy_file(source_file, target_file): file sp of side s is      *)
(* copied to path tp of side t.  Returns the new trees and counters.       *)
(***************************************************************************)
copy_file(f, st, dry, s, sp, t, tp) ==
    LET mk == Mkdir(f[t], Parent(tp))
    IN  IF ~mk.ok THEN [fs |-> f, stats |-> Bump(st, "errors")]
        ELSE
        LET f1 == [f EXCEPT ![t] = mk.tree]
        IN  IF PathExists(f1[t], tp) /\ SameHash(f1[s][sp], f1[t][tp])
            THEN [fs |-> f1, stats |-> Bump(st, "skipped")]
            ELSE
            LET cp == IF dry THEN [ok |-> TRUE, tree |-> f1[t]]
                      ELSE Copy2(f1[s][sp], sp, f1[t], tp)
                f2 == [f1 EXCEPT ![t] = cp.tree]
            IN  IF ~cp.ok THEN [fs |-> f1, stats |-> Bump(st, "errors")]
                ELSE [fs |-> f2, stats |-> Bump(st, CopyCounter(f2[t], tp))]

\* mutant of delete_file: the directory the file was the last entry of is
\* removed together with the file
delete_file_pruning(f, st, dry, t, p) ==
    IF dry THEN [fs |-> f, stats |-> Bump(st, "deleted")]
    ELSE IF ~IsFile(f[t], p) THEN [fs |-> f, stats |-> Bump(st, "errors")]
    ELSE LET gone == [f[t] EXCEPT ![p] = NoNode]
             up == Parent(p)
         IN  IF up # Root /\ ~HasEntries(gone, up)
             THEN [fs |-> [f EXCEPT ![t] = [gone EXCEPT ![up] = NoNode]],
                   stats |-> Bump(st, "deleted")]
             ELSE [fs |-> [f EXCEPT ![t] = gone], stats |-> Bump(st, "deleted")]

(***************************************************************************)
(* FileSync.delete_file and FileSync.delete_directory on the target.       *)
(***************************************************************************)
\* mutant of delete_file: the dry_run test is inverted
delete_file_inverted(f, st, dry, t, p) ==
    IF ~dry THEN [fs |-> f, stats |-> Bump(st, "deleted")]
    ELSE IF ~IsFile(f[t], p) THEN [fs |-> f, stats |-> Bump(st, "errors")]
    ELSE [fs |-> [f EXCEPT ![t][p] = NoNode], stats |-> Bump(st, "deleted")]

delete_file(f, st, dry, t, p) ==
    IF dry THEN [fs |-> f, stats |-> Bump(st, "deleted")]
    ELSE IF ~IsFile(f[t], p) THEN [fs |-> f, stats |-> Bump(st, "errors")]
    ELSE [fs |-> [f EXCEPT ![t][p] = NoNode], stats |-> Bump(st, "deleted")]

delete_directory(f, st, dry, t, p) ==
    IF dry THEN [fs |-> f, stats |-> Bump(st, "deleted")]
    ELSE IF ~IsDir(f[t], p) THEN [fs |-> f, stats |-> Bump(st, "errors")]
    ELSE [fs |-> [f EXCEPT ![t] =
                    [q \in PathU |-> IF IsPrefix(p, q) THEN NoNode ELSE f[t][q]]],
          stats |-> Bump(st, "deleted")]

(***************************************************************************)
(* The same three methods in an environment whose operations may fail      *)
(* (permission denied, disk full, unreadable file).  flt names the         *)
(* operation the environment lets fail during this call; the result        *)
(* carries the failure that took effect and whether an exception left the  *)
(* method (never: each body is wrapped in try/except Exception).           *)
(***************************************************************************)
CopyFaults == { "none", "mkdir", "hash_source", "hash_target", "hash_both", "copy" }

\* get_file_hash, lines 69-71: an unreadable file gives None (0)
HashOrNone(node, unreadable) == IF unreadable THEN 0 ELSE get_file_hash(node)

copy_file_env(f, st, dry, s, sp, t, tp, flt) ==
    LET mk == Mkdir(f[t], Parent(tp))
        creates == ~IsDir(f[t], Parent(tp))
    IN  IF ~mk.ok \/ (flt = "mkdir" /\ creates)
        THEN [fs |-> f, stats |-> Bump(st, "errors"), fault |-> "mkdir", raised |-> FALSE]
        ELSE
        LET f1 == [f EXCEPT ![t] = mk.tree]
            hashed == PathExists(f1[t], tp)
            hs == HashOrNone(f1[s][sp], flt \in {"hash_source", "hash_both"})
            ht == HashOrNone(f1[t][tp], flt \in {"hash_target", "hash_both"})
            hfault == IF hashed /\ flt \in {"hash_source", "hash_target", "hash_both"}
                      THEN flt ELSE "none"
        IN  IF hashed /\ hs = ht
            THEN [fs |-> f1, stats |-> Bump(st, "skipped"), fault |-> hfault,
                  raised |-> FALSE]
            ELSE
            LET cp == IF dry THEN [ok |-> TRUE, tree |-> f1[t]]
                      ELSE IF flt = "copy" THEN [ok |-> FALSE, tree |-> f1[t]]
                      ELSE Copy2(f1[s][sp], sp, f1[t], tp)
                f2 == [f1 EXCEPT ![t] = cp.tree]
            IN  IF ~cp.ok
                THEN [fs |-> f1, stats |-> Bump(st, "errors"), fault |-> "copy",
                      raised |-> FALSE]
                ELSE [fs |-> f2, stats |-> Bump(st, CopyCounter(f2[t], tp)),
                      fault |-> hfault, raised |-> FALSE]

\* mutant of delete_file_env: no try/except, the exception leaves the method
delete_file_env_uncaught(f, st, dry, t, p, flt) ==
    IF dry THEN [fs |-> f, stats |-> Bump(st, "deleted"), fault |-> "none",
                 raised |-> FALSE]
    ELSE IF flt = "unlink" \/ ~IsFile(f[t], p)
    THEN [fs |-> f, stats |-> st, fault |-> "unlink", raised |-> TRUE]
    ELSE [fs |-> [f EXCEPT ![t][p] = NoNode], stats |-> Bump(st, "deleted"),
          fault |-> "none", raised |-> FALSE]

delete_file_env(f, st, dry, t, p, flt) ==
    IF dry THEN [fs |-> f, stats |-> Bump(st, "deleted"), fault |-> "none",
                 raised |-> FALSE]
    ELSE IF flt = "unlink" \/ ~IsFile(f[t], p)
    THEN [fs |-> f, stats |-> Bump(st, "errors"), fault |-> "unlink", raised |-> FALSE]
    ELSE [fs |-> [f EXCEPT ![t][p] = NoNode], stats |-> Bump(st, "deleted"),
          fault |-> "none", raised |-> FALSE]

delete_directory_env(f, st, dry, t, p, flt) ==
    IF dry THEN [fs |-> f, stats |-> Bump(st, "deleted"), fault |-> "none",
                 raised |-> FALSE]
    ELSE IF flt = "rmtree" \/ ~IsDir(f[t], p)
    THEN [fs |-> f, stats |-> Bump(st, "errors"), fault |-> "rmtree", raised |-> FALSE]
    ELSE [fs |-> [f EXCEPT ![t] =
                    [q \in PathU |-> IF IsPrefix(p, q) THEN NoNode ELSE f[t][q]]],
          stats |-> Bump(st, "deleted"), fault |-> "none", raised |-> FALSE]

\* where run_sync stands after a call that returned or raised
AfterCall(r, here) == IF r.raised THEN "raised" ELSE here

\* rglob yields a directory before the entries below it
NextInWalk(pend) == { p \in pend : \A q \in pend : q = p \/ ~IsPrefix(q, p) }

(***************************************************************************)
(* FileSync.__init__ followed by nothing else: a fresh object over two     *)
(* existing or (for the target) missing roots.                             *)
(***************************************************************************)
InitWith(ms, ds, P) ==
    /\ fs \in { f \in [Sides -> InitTrees(P)] : f["source"][Root].kind = "dir" }
    /\ mode \in ms
    /\ dry_run \in ds
    /\ stats = ZeroStats
    /\ excluded = {}
    /\ pc = "init"
    /\ pending = {}
    /\ all_files = << >>
    /\ fs0 = fs
    /\ run = 1
    /\ first = ZeroStats
    /\ fault = "none"
    /\ copying = NoCopy

Init == InitWith(Modes, BOOLEAN, ShallowPaths)

\* mutant of Dispatch: a mode that is not recognised falls back to mirror_sync
DispatchLenient(m) ==
    CASE m = "backup" -> "backup_sync"
      [] m = "sync" -> "two_way_sync"
      [] OTHER -> "mirror_sync"

\* run_sync, lines 305-312: the method a mode is dispatched to
Dispatch(m) ==
    CASE m = "mirror" -> "mirror_sync"
      [] m = "backup" -> "backup_sync"
      [] m = "sync" -> "two_way_sync"
      [] OTHER -> "raise"

(***************************************************************************)
(* mirror_sync                                                             *)
(***************************************************************************)
\* lines 154-160: create the target root, start walking the source
MirrorStart ==
    /\ pc = "init" /\ Dispatch(mode) = "mirror_sync"
    /\ LET mk == Mkdir(fs["target"], Root)
       IN  /\ mk.ok
           /\ fs' = [fs EXCEPT !["target"] = mk.tree]
    /\ pending' = RGlob(fs["source"])
    /\ pc' = "m_copy"
    /\ UNCHANGED << mode, dry_run, stats, excluded, all_files, fs0, run, first, fault, copying >>

\* lines 160-167: one iteration of the loop over the source
MirrorCopyStep ==
    /\ pc = "m_copy"
    /\ \E p \in NextInWalk(pending) :
          /\ pending' = pending \ {p}
          /\ IF ~should_exclude(excluded, "source", p) /\ IsFile(fs["source"], p)
             THEN LET r == copy_file(fs, stats, dry_run, "source", p, "target", p)
                  IN  fs' = r.fs /\ stats' = r.stats
             ELSE UNCHANGED << fs, stats >>
    /\ UNCHANGED << mode, dry_run, excluded, pc, all_files, fs0, run, first, fault, copying >>

\* line 170: the loop over the source is over, start walking the target
MirrorCopyDone ==
    /\ pc = "m_copy" /\ pending = {}
    /\ pending' = RGlob(fs["target"])
    /\ pc' = "m_delete"
    /\ UNCHANGED << fs, mode, dry_run, stats, excluded, all_files, fs0, run, first, fault, copying >>

\* lines 170-179: one iteration of the loop over the target's files
MirrorDeleteStep ==
    /\ pc = "m_delete"
    /\ \E p \in NextInWalk(pending) :
          /\ pending' = pending \ {p}
          /\ IF /\ ~should_exclude(excluded, "target", p)
                /\ IsFile(fs["target"], p)
                /\ ~PathExists(fs["source"], p)
             THEN LET r == delete_file(fs, stats, dry_run, "target", p)
                  IN  fs' = r.fs /\ stats' = r.stats
             ELSE UNCHANGED << fs, stats >>
    /\ UNCHANGED << mode, dry_run, excluded, pc, all_files, fs0, run, first, fault, copying >>

\* line 182: sorted(self.target_dir.rglob('*'), reverse=True) is taken
MirrorDeleteDone ==
    /\ pc = "m_delete" /\ pending = {}
    /\ pending' = RGlob(fs["target"])
    /\ pc' = "m_reap"
    /\ UNCHANGED << fs, mode, dry_run, stats, excluded, all_files, fs0, run, first, fault, copying >>

\* lines 182-188: one iteration of the loop over the target's directories
MirrorReapStep ==
    /\ pc = "m_reap" /\ pending # {}
    /\ LET p == LastSorted(pending)
       IN  /\ pending' = pending \ {p}
           /\ IF /\ IsDir(fs["target"], p)
                 /\ ~HasEntries(fs["target"], p)
                 /\ ~PathExists(fs["source"], p)
              THEN LET r == delete_directory(fs, stats, dry_run, "target", p)
                   IN  fs' = r.fs /\ stats' = r.stats
              ELSE UNCHANGED << fs, stats >>
    /\ UNCHANGED << mode, dry_run, excluded, pc, all_files, fs0, run, first, fault, copying >>

\* mirror_sync returns; run_sync lines 314-328 return self.stats
MirrorFinish ==
    /\ pc = "m_reap" /\ pending = {}
    /\ pc' = "done"
    /\ UNCHANGED << fs, mode, dry_run, stats, excluded, pending, all_files, fs0, run, first, fault, copying >>

(***************************************************************************)
(* backup_sync                                                             *)
(***************************************************************************)
\* lines 192-198: create the target root, start walking the source
BackupStart ==
    /\ pc = "init" /\ Dispatch(mode) = "backup_sync"
    /\ LET mk == Mkdir(fs["target"], Root)
       IN  /\ mk.ok
           /\ fs' = [fs EXCEPT !["target"] = mk.tree]
    /\ pending' = RGlob(fs["source"])
    /\ pc' = "b_copy"
    /\ UNCHANGED << mode, dry_run, stats, excluded, all_files, fs0, run, first, fault, copying >>

\* lines 198-205: one iteration of the loop over the source
BackupCopyStep ==
    /\ pc = "b_copy"
    /\ \E p \in NextInWalk(pending) :
          /\ pending' = pending \ {p}
          /\ IF ~should_exclude(excluded, "source", p) /\ IsFile(fs["source"], p)
             THEN LET r == copy_file(fs, stats, dry_run, "source", p, "target", p)
                  IN  fs' = r.fs /\ stats' = r.stats
             ELSE UNCHANGED << fs, stats >>
    /\ UNCHANGED << mode, dry_run, excluded, pc, all_files, fs0, run, first, fault, copying >>

\* backup_sync returns; run_sync lines 314-328 return self.stats
BackupFinish ==
    /\ pc = "b_copy" /\ pending = {}
    /\ pc' = "done"
    /\ UNCHANGED << fs, mode, dry_run, stats, excluded, pending, all_files, fs0, run, first, fault, copying >>

(***************************************************************************)
(* two_way_sync                                                            *)
(***************************************************************************)
\* the files a scan loop of two_way_sync retains (lines 220 and 234)
Scanned(tree, excl, side) ==
    { p \in RGlob(tree) : ~should_exclude(excl, side, p) /\ IsFile(tree, p) }

\* lines 224-230 and 238-243: file_info; order 1 marks a key inserted by
\* the loop over the source, which the dict yields before the other keys
FileInfo(tree, p, side, ord) ==
    [source |-> side, mtime |-> tree[p].mtime, order |-> ord]

\* mutant of Retain: on equal modification times the target's entry is kept
RetainTargetOnTie(sinfo, tinfo) ==
    IF tinfo.mtime >= sinfo.mtime THEN [tinfo EXCEPT !.order = sinfo.order] ELSE sinfo

\* lines 245-250: the entry kept for a path both trees hold
Retain(sinfo, tinfo) ==
    IF tinfo.mtime > sinfo.mtime THEN [tinfo EXCEPT !.order = sinfo.order] ELSE sinfo

\* lines 209-213: create both roots
TwoWayStart ==
    /\ pc = "init" /\ Dispatch(mode) = "two_way_sync"
    /\ LET ms == Mkdir(fs["source"], Root)
           mt == Mkdir(fs["target"], Root)
       IN  /\ ms.ok /\ mt.ok
           /\ fs' = [fs EXCEPT !["source"] = ms.tree, !["target"] = mt.tree]
    /\ pc' = "t_scan_source"
    /\ UNCHANGED << mode, dry_run, stats, excluded, pending, all_files, fs0, run, first, fault, copying >>

\* lines 216-230: the loop over the source fills all_files
TwoWayScanSource ==
    /\ pc = "t_scan_source"
    /\ all_files' = [p \in Scanned(fs["source"], excluded, "source") |->
                        FileInfo(fs["source"], p, "source", 1)]
    /\ pc' = "t_scan_target"
    /\ UNCHANGED << fs, mode, dry_run, stats, excluded, pending, fs0, run, first, fault, copying >>

\* lines 233-250: the loop over the target merges into all_files
TwoWayScanTarget ==
    /\ pc = "t_scan_target"
    /\ LET S == DOMAIN all_files
           T == Scanned(fs["target"], excluded, "target")
       IN  all_files' =
             [p \in S \cup T |->
                IF p \notin T THEN all_files[p]
                ELSE IF p \notin S THEN FileInfo(fs["target"], p, "target", 2)
                ELSE Retain(all_files[p], FileInfo(fs["target"], p, "target", 2))]
    /\ pending' = DOMAIN all_files'
    /\ pc' = "t_sync"
    /\ UNCHANGED << fs, mode, dry_run, stats, excluded, fs0, run, first, fault, copying >>

\* all_files.items(): keys in insertion order
NextInDict(pend, d) == { p \in pend : \A q \in pend : d[q].order >= d[p].order }

\* lines 253-260: one iteration of the loop over all_files
TwoWaySyncStep ==
    /\ pc = "t_sync"
    /\ \E p \in NextInDict(pending, all_files) :
          /\ pending' = pending \ {p}
          /\ LET from == all_files[p].source
                 r == copy_file(fs, stats, dry_run, from, p, Other(from), p)
             IN  fs' = r.fs /\ stats' = r.stats
    /\ UNCHANGED << mode, dry_run, excluded, pc, all_files, fs0, run, first, fault, copying >>

\* two_way_sync returns; run_sync lines 314-328 return self.stats
TwoWayFinish ==
    /\ pc = "t_sync" /\ pending = {}
    /\ pc' = "done"
    /\ UNCHANGED << fs, mode, dry_run, stats, excluded, pending, all_files, fs0, run, first, fault, copying >>

(***************************************************************************)
(* The loops of the three policies in the failing environment.             *)
(***************************************************************************)
\* lines 160-167, with the failures copy_file may meet
MirrorCopyStepEnv ==
    /\ pc = "m_copy"
    /\ \E p \in NextInWalk(pending) :
          /\ pending' = pending \ {p}
          /\ IF ~should_exclude(excluded, "source", p) /\ IsFile(fs["source"], p)
             THEN \E flt \in CopyFaults :
                    LET r == copy_file_env(fs, stats, dry_run, "source", p, "target", p, flt)
                    IN  /\ fs' = r.fs /\ stats' = r.stats /\ fault' = r.fault
                        /\ pc' = AfterCall(r, pc)
             ELSE fault' = "none" /\ UNCHANGED << fs, stats, pc >>
    /\ UNCHANGED << mode, dry_run, excluded, all_files, fs0, run, first, copying >>

\* lines 170-179, with the failures delete_file may meet
MirrorDeleteStepEnv ==
    /\ pc = "m_delete"
    /\ \E p \in NextInWalk(pending) :
          /\ pending' = pending \ {p}
          /\ IF /\ ~should_exclude(excluded, "target", p)
                /\ IsFile(fs["target"], p)
                /\ ~PathExists(fs["source"], p)
             THEN \E flt \in {"none", "unlink"} :
                    LET r == delete_file_env(fs, stats, dry_run, "target", p, flt)
                    IN  /\ fs' = r.fs /\ stats' = r.stats /\ fault' = r.fault
                        /\ pc' = AfterCall(r, pc)
             ELSE fault' = "none" /\ UNCHANGED << fs, stats, pc >>
    /\ UNCHANGED << mode, dry_run, excluded, all_files, fs0, run, first, copying >>

\* lines 182-188, with the failures delete_directory may meet
MirrorReapStepEnv ==
    /\ pc = "m_reap" /\ pending # {}
    /\ LET p == LastSorted(pending)
       IN  /\ pending' = pending \ {p}
           /\ IF /\ IsDir(fs["target"], p)
                 /\ ~HasEntries(fs["target"], p)
                 /\ ~PathExists(fs["source"], p)
              THEN \E flt \in {"none", "rmtree"} :
                     LET r == delete_directory_env(fs, stats, dry_run, "target", p, flt)
                     IN  /\ fs' = r.fs /\ stats' = r.stats /\ fault' = r.fault
                         /\ pc' = AfterCall(r, pc)
              ELSE fault' = "none" /\ UNCHANGED << fs, stats, pc >>
    /\ UNCHANGED << mode, dry_run, excluded, all_files, fs0, run, first, copying >>

\* lines 198-205, with the failures copy_file may meet
BackupCopyStepEnv ==
    /\ pc = "b_copy"
    /\ \E p \in NextInWalk(pending) :
          /\ pending' = pending \ {p}
          /\ IF ~should_exclude(excluded, "source", p) /\ IsFile(fs["source"], p)
             THEN \E flt \in CopyFaults :
                    LET r == copy_file_env(fs, stats, dry_run, "source", p, "target", p, flt)
                    IN  /\ fs' = r.fs /\ stats' = r.stats /\ fault' = r.fault
                        /\ pc' = AfterCall(r, pc)
             ELSE fault' = "none" /\ UNCHANGED << fs, stats, pc >>
    /\ UNCHANGED << mode, dry_run, excluded, all_files, fs0, run, first, copying >>

\* lines 253-260, with the failures copy_file may meet
TwoWaySyncStepEnv ==
    /\ pc = "t_sync"
    /\ \E p \in NextInDict(pending, all_files) :
          /\ pending' = pending \ {p}
          /\ \E flt \in CopyFaults :
                LET from == all_files[p].source
                    r == copy_file_env(fs, stats, dry_run, from, p, Other(from), p, flt)
                IN  /\ fs' = r.fs /\ stats' = r.stats /\ fault' = r.fault
                    /\ pc' = AfterCall(r, pc)
    /\ UNCHANGED << mode, dry_run, excluded, all_files, fs0, run, first, copying >>

(***************************************************************************)
(* main(): the command line entry point around one run_sync call.          *)
(* pc = "main" is the start of main, "done" is run_sync returned to main,  *)
(* "raised" is an exception on its way out of run_sync, "exit_0" and       *)
(* "exit_1" are the process ended by sys.exit.                             *)
(***************************************************************************)
Exits == { "exit_0", "exit_1" }

\* a root that is a regular file
RootFileTrees ==
    { [p \in PathU |-> IF p = Root THEN n ELSE NoNode] : n \in FileNodes }

\* what the two command line arguments may name
MainTrees == InitTrees(ShallowPaths) \cup RootFileTrees

InitMain ==
    /\ fs \in [Sides -> MainTrees]
    /\ mode \in Modes
    /\ dry_run \in BOOLEAN
    /\ stats = ZeroStats
    /\ excluded = {}
    /\ pc = "main"
    /\ pending = {}
    /\ all_files = << >>
    /\ fs0 = fs
    /\ run = 1
    /\ first = ZeroStats
    /\ fault = "none"
    /\ copying = NoCopy

\* lines 349-363: the source is only tested with exists()
MainCheckSource ==
    /\ pc = "main"
    /\ pc' = IF ~PathExists(fs["source"], Root) THEN "exit_1" ELSE "init"
    /\ UNCHANGED << fs, mode, dry_run, stats, excluded, pending, all_files,
                    fs0, run, first, fault, copying >>

\* line 157: mkdir of the target root is outside any try block
MirrorStartRaises ==
    /\ pc = "init" /\ Dispatch(mode) = "mirror_sync"
    /\ ~Mkdir(fs["target"], Root).ok
    /\ pc' = "raised"
    /\ UNCHANGED << fs, mode, dry_run, stats, excluded, pending, all_files,
                    fs0, run, first, fault, copying >>

\* line 195
BackupStartRaises ==
    /\ pc = "init" /\ Dispatch(mode) = "backup_sync"
    /\ ~Mkdir(fs["target"], Root).ok
    /\ pc' = "raised"
    /\ UNCHANGED << fs, mode, dry_run, stats, excluded, pending, all_files,
                    fs0, run, first, fault, copying >>

\* lines 212-213: the source root first, then the target root
TwoWayStartRaises ==
    /\ pc = "init" /\ Dispatch(mode) = "two_way_sync"
    /\ LET ms == Mkdir(fs["source"], Root)
           mt == Mkdir(fs["target"], Root)
       IN  /\ ~ms.ok \/ ~mt.ok
           /\ fs' = IF ms.ok THEN [fs EXCEPT !["source"] = ms.tree] ELSE fs
    /\ pc' = "raised"
    /\ UNCHANGED << mode, dry_run, stats, excluded, pending, all_files,
                    fs0, run, first, fault, copying >>

\* mutant of ExitCode: the counter is not looked at
ExitCodeAlwaysZero(st) == "exit_0"

\* lines 387-391
ExitCode(st) == IF st["errors"] > 0 THEN "exit_1" ELSE "exit_0"

\* lines 376-391: run_sync returned its stats
MainExit ==
    /\ pc = "done"
    /\ pc' = ExitCode(stats)
    /\ UNCHANGED << fs, mode, dry_run, stats, excluded, pending, all_files,
                    fs0, run, first, fault, copying >>

\* lines 392-394: any exception out of run_sync
MainExcept ==
    /\ pc = "raised"
    /\ pc' = "exit_1"
    /\ UNCHANGED << fs, mode, dry_run, stats, excluded, pending, all_files,
                    fs0, run, first, fault, copying >>

(***************************************************************************)
(* main(), lines 365-368: the paths given with -e are added before the     *)
(* run.  add_exclusion keeps a path only if it names an existing file or   *)
(* directory; the entry is the resolved absolute path, here <<side, p>>.   *)
(***************************************************************************)
add_exclusion(excl, f, side, p) ==
    IF IsFile(f[side], p) \/ IsDir(f[side], p) THEN excl \cup { <<side, p>> } ELSE excl

AddExclusion ==
    /\ pc = "init" /\ Cardinality(excluded) < MaxExclusions
    /\ \E side \in Sides, p \in PathU \ {Root} :
          excluded' = add_exclusion(excluded, fs, side, p)
    /\ UNCHANGED << fs, mode, dry_run, stats, pc, pending, all_files,
                    fs0, run, first, fault, copying >>

(***************************************************************************)
(* Another process deletes a file after rglob has listed it.               *)
(***************************************************************************)
Vanish(f, side, p) == [f EXCEPT ![side][p] = NoNode]

\* lines 160-161: is_file() is false for the vanished file, the loop goes on
MirrorCopyStepRace ==
    /\ pc = "m_copy"
    /\ \E p \in NextInWalk(pending) :
          /\ IsFile(fs["source"], p)
          /\ fs' = Vanish(fs, "source", p)
          /\ pending' = pending \ {p}
    /\ UNCHANGED << mode, dry_run, stats, excluded, pc, all_files, fs0, run, first, fault, copying >>

\* lines 198-199: the same in backup_sync
BackupCopyStepRace ==
    /\ pc = "b_copy"
    /\ \E p \in NextInWalk(pending) :
          /\ IsFile(fs["source"], p)
          /\ fs' = Vanish(fs, "source", p)
          /\ pending' = pending \ {p}
    /\ UNCHANGED << mode, dry_run, stats, excluded, pc, all_files, fs0, run, first, fault, copying >>

\* lines 219-227: the file vanishes between is_file() and stat(); stat()
\* raises FileNotFoundError and nothing in two_way_sync or run_sync catches it
TwoWayScanSourceRace ==
    /\ pc = "t_scan_source"
    /\ \E p \in Scanned(fs["source"], excluded, "source") :
          fs' = Vanish(fs, "source", p)
    /\ pc' = "raised"
    /\ UNCHANGED << mode, dry_run, stats, excluded, pending, all_files, fs0, run, first, fault, copying >>

\* lines 233-241: the same in the loop over the target
TwoWayScanTargetRace ==
    /\ pc = "t_scan_target"
    /\ \E p \in Scanned(fs["target"], excluded, "target") :
          fs' = Vanish(fs, "target", p)
    /\ pc' = "raised"
    /\ UNCHANGED << mode, dry_run, stats, excluded, pending, all_files, fs0, run, first, fault, copying >>

(***************************************************************************)
(* copy_file in two steps, with another process writing the target file    *)
(* between the comparison (lines 99-109) and the copy (lines 111-120).     *)
(* copying.from is "none" when no call is between the two steps;           *)
(* copying.seen is the target entry the comparison looked at (the code      *)
(* keeps nothing of it for the second step); copying.raced tells whether    *)
(* the other process wrote during the latest call.                         *)
(***************************************************************************)
CopyPhases == { "m_copy", "b_copy", "t_sync" }

\* the entries the loop at pc may take next, and the side copy_file reads
CopyItems == IF pc = "t_sync" THEN NextInDict(pending, all_files) ELSE NextInWalk(pending)

CopyFrom(p) == IF pc = "t_sync" THEN all_files[p].source ELSE "source"

\* lines 161 and 199: only files should_exclude lets through reach copy_file
ReachesCopyFile(p) ==
    pc = "t_sync" \/ (~should_exclude(excluded, "source", p) /\ IsFile(fs["source"], p))

\* lines 96-109: mkdir of the parent and the comparison of the digests
CopyCompare ==
    /\ pc \in CopyPhases /\ copying.from = "none"
    /\ \E p \in CopyItems :
         LET from == CopyFrom(p)
             to == Other(from)
             mk == Mkdir(fs[to], Parent(p))
             f1 == [fs EXCEPT ![to] = mk.tree]
         IN  IF ~ReachesCopyFile(p)
             THEN pending' = pending \ {p} /\ UNCHANGED << fs, stats, copying >>
             ELSE IF ~mk.ok
             THEN /\ stats' = Bump(stats, "errors")
                  /\ pending' = pending \ {p}
                  /\ UNCHANGED << fs, copying >>
             ELSE IF PathExists(f1[to], p) /\ SameHash(f1[from][p], f1[to][p])
             THEN /\ fs' = f1
                  /\ stats' = Bump(stats, "skipped")
                  /\ pending' = pending \ {p}
                  /\ UNCHANGED copying
             ELSE /\ fs' = f1
                  /\ copying' = [from |-> from, p |-> p, seen |-> f1[to][p],
                                  raced |-> FALSE]
                  /\ UNCHANGED << stats, pending >>
    /\ UNCHANGED << mode, dry_run, excluded, pc, all_files, fs0, run, first, fault >>

\* another process writes the target file while copy_file is between its
\* comparison and its copy
OtherProcessWrites ==
    /\ copying.from # "none"
    /\ LET to == Other(copying.from)
       IN  /\ ~IsDir(fs[to], copying.p)
           /\ \E n \in FileNodes :
                 /\ n # fs[to][copying.p]
                 /\ fs' = [fs EXCEPT ![to][copying.p] = n]
    /\ copying' = [copying EXCEPT !.raced = TRUE]
    /\ UNCHANGED << mode, dry_run, stats, excluded, pc, pending, all_files,
                    fs0, run, first, fault >>

\* mutant of copy_perform: a target that is no longer what the comparison
\* saw is a conflict, counted as an error and left alone
copy_perform_checked(f, st, dry, s, sp, t, tp, seen) ==
    IF f[t][tp] # seen THEN [fs |-> f, stats |-> Bump(st, "errors")]
    ELSE LET cp == IF dry THEN [ok |-> TRUE, tree |-> f[t]]
                   ELSE Copy2(f[s][sp], sp, f[t], tp)
             f2 == [f EXCEPT ![t] = cp.tree]
         IN  IF ~cp.ok THEN [fs |-> f, stats |-> Bump(st, "errors")]
             ELSE [fs |-> f2, stats |-> Bump(st, CopyCounter(f2[t], tp))]

\* lines 111-124: the copy and the counting; what the comparison saw is not
\* looked at again
copy_perform(f, st, dry, s, sp, t, tp, seen) ==
    LET cp == IF dry THEN [ok |-> TRUE, tree |-> f[t]]
              ELSE Copy2(f[s][sp], sp, f[t], tp)
        f2 == [f EXCEPT ![t] = cp.tree]
    IN  IF ~cp.ok THEN [fs |-> f, stats |-> Bump(st, "errors")]
        ELSE [fs |-> f2, stats |-> Bump(st, CopyCounter(f2[t], tp))]

CopyPerform ==
    /\ copying.from # "none"
    /\ LET r == copy_perform(fs, stats, dry_run, copying.from, copying.p,
                             Other(copying.from), copying.p, copying.seen)
       IN  fs' = r.fs /\ stats' = r.stats
    /\ pending' = pending \ {copying.p}
    /\ copying' = [copying EXCEPT !.from = "none"]
    /\ UNCHANGED << mode, dry_run, excluded, pc, all_files, fs0, run, first, fault >>

(***************************************************************************)
(* self.log (lines 50-59) appends to the log file and can fail like any    *)
(* other write.  copy_file, delete_file and delete_directory call it       *)
(* inside their try block, after the counter was incremented, and once     *)
(* more inside their except block.  r is the outcome of the call with a    *)
(* working log, st the counters before the call, lg what happens to the    *)
(* log writes of the call.                                                 *)
(***************************************************************************)
LogOutcomes == { "ok", "fails_once", "fails" }

Logged(r, st, lg) ==
    IF lg = "ok" THEN [fs |-> r.fs, stats |-> r.stats, raised |-> FALSE]
    ELSE IF r.stats["errors"] > st["errors"]
    \* the call was already in its except block: the failing log write
    \* leaves the method as an exception
    THEN [fs |-> r.fs, stats |-> r.stats, raised |-> TRUE]
    \* the log write of the try block fails after the increment: the except
    \* block increments errors as well and logs again
    ELSE [fs |-> r.fs, stats |-> Bump(r.stats, "errors"), raised |-> lg = "fails"]

\* lines 160-167
MirrorCopyStepLog ==
    /\ pc = "m_copy"
    /\ \E p \in NextInWalk(pending) :
          /\ pending' = pending \ {p}
          /\ IF ~should_exclude(excluded, "source", p) /\ IsFile(fs["source"], p)
             THEN \E lg \in LogOutcomes :
                    LET r == Logged(copy_file(fs, stats, dry_run, "source", p, "target", p),
                                    stats, lg)
                    IN  fs' = r.fs /\ stats' = r.stats /\ pc' = AfterCall(r, pc)
             ELSE UNCHANGED << fs, stats, pc >>
    /\ UNCHANGED << mode, dry_run, excluded, all_files, fs0, run, first, fault, copying >>

\* lines 170-179
MirrorDeleteStepLog ==
    /\ pc = "m_delete"
    /\ \E p \in NextInWalk(pending) :
          /\ pending' = pending \ {p}
          /\ IF /\ ~should_exclude(excluded, "target", p)
                /\ IsFile(fs["target"], p)
                /\ ~PathExists(fs["source"], p)
             THEN \E lg \in LogOutcomes :
                    LET r == Logged(delete_file(fs, stats, dry_run, "target", p), stats, lg)
                    IN  fs' = r.fs /\ stats' = r.stats /\ pc' = AfterCall(r, pc)
             ELSE UNCHANGED << fs, stats, pc >>
    /\ UNCHANGED << mode, dry_run, excluded, all_files, fs0, run, first, fault, copying >>

\* lines 182-188
MirrorReapStepLog ==
    /\ pc = "m_reap" /\ pending # {}
    /\ LET p == LastSorted(pending)
       IN  /\ pending' = pending \ {p}
           /\ IF /\ IsDir(fs["target"], p)
                 /\ ~HasEntries(fs["target"], p)
                 /\ ~PathExists(fs["source"], p)
              THEN \E lg \in LogOutcomes :
                     LET r == Logged(delete_directory(fs, stats, dry_run, "target", p),
                                     stats, lg)
                     IN  fs' = r.fs /\ stats' = r.stats /\ pc' = AfterCall(r, pc)
              ELSE UNCHANGED << fs, stats, pc >>
    /\ UNCHANGED << mode, dry_run, excluded, all_files, fs0, run, first, fault, copying >>

\* lines 198-205
BackupCopyStepLog ==
    /\ pc = "b_copy"
    /\ \E p \in NextInWalk(pending) :
          /\ pending' = pending \ {p}
          /\ IF ~should_exclude(excluded, "source", p) /\ IsFile(fs["source"], p)
             THEN \E lg \in LogOutcomes :
                    LET r == Logged(copy_file(fs, stats, dry_run, "source", p, "target", p),
                                    stats, lg)
                    IN  fs' = r.fs /\ stats' = r.stats /\ pc' = AfterCall(r, pc)
             ELSE UNCHANGED << fs, stats, pc >>
    /\ UNCHANGED << mode, dry_run, excluded, all_files, fs0, run, first, fault, copying >>

\* lines 253-260
TwoWaySyncStepLog ==
    /\ pc = "t_sync"
    /\ \E p \in NextInDict(pending, all_files) :
          /\ pending' = pending \ {p}
          /\ \E lg \in LogOutcomes :
                LET from == all_files[p].source
                    r == Logged(copy_file(fs, stats, dry_run, from, p, Other(from), p),
                                stats, lg)
                IN  fs' = r.fs /\ stats' = r.stats /\ pc' = AfterCall(r, pc)
    /\ UNCHANGED << mode, dry_run, excluded, all_files, fs0, run, first, fault, copying >>

(***************************************************************************)
(* run_sync, line 300: the first self.log call creates the log file in     *)
(* the working directory; every later call appends to it.  The program may *)
(* be run from anywhere, also from the source root or the target root.     *)
(***************************************************************************)
WorkingDirs == { "elsewhere" } \cup Sides

InitCwd ==
    /\ fs \in { f \in [Sides -> InitTrees(ShallowPaths)] : f["source"][Root].kind = "dir" }
    /\ mode \in { "mirror", "backup" }
    /\ dry_run \in BOOLEAN
    /\ stats = ZeroStats
    /\ excluded = {}
    /\ pc = "run_sync"
    /\ pending = {}
    /\ all_files = << >>
    /\ fs0 = fs
    /\ run = 1
    /\ first = ZeroStats
    /\ fault = "none"
    /\ copying = NoCopy

RunSyncLogs ==
    /\ pc = "run_sync"
    /\ \E cwd \in WorkingDirs :
          fs' = IF cwd \in Sides /\ IsDir(fs[cwd], Root)
                THEN [fs EXCEPT ![cwd][LogPath] = FileNode(1, 2)]
                ELSE fs
    /\ pc' = "init"
    /\ UNCHANGED << mode, dry_run, stats, excluded, pending, all_files,
                    fs0, run, first, fault, copying >>

(***************************************************************************)
(* run_sync on an object constructed with any mode string: __init__ stores *)
(* the mode as given (line 26) and run_sync compares it with == (305-312). *)
(***************************************************************************)
OtherModes == { "two_way", "MIRROR" }

InitAnyMode ==
    /\ fs \in { f \in [Sides -> InitTrees(ShallowPaths)] : f["source"][Root].kind = "dir" }
    /\ mode \in Modes \cup OtherModes
    /\ dry_run \in BOOLEAN
    /\ stats = ZeroStats
    /\ excluded = {}
    /\ pc = "run_sync"
    /\ pending = {}
    /\ all_files = << >>
    /\ fs0 = fs
    /\ run = 1
    /\ first = ZeroStats
    /\ fault = "none"
    /\ copying = NoCopy

\* lines 311-312: no branch matches, ValueError leaves run_sync
RunSyncRaises ==
    /\ pc = "init" /\ Dispatch(mode) = "raise"
    /\ pc' = "raised"
    /\ UNCHANGED << fs, mode, dry_run, stats, excluded, pending, all_files,
                    fs0, run, first, fault, copying >>

(***************************************************************************)
(* Further runs.                                                           *)
(***************************************************************************)
\* main() is started once more with the same arguments on the trees as the
\* previous run left them: a new FileSync object, counters at zero
RunAgain ==
    /\ pc = "done" /\ run < MaxRuns
    /\ run' = run + 1
    /\ first' = IF run = 1 THEN stats ELSE first
    /\ stats' = ZeroStats
    /\ fs0' = fs
    /\ pc' = "init"
    /\ pending' = {}
    /\ all_files' = << >>
    /\ UNCHANGED << fs, mode, dry_run, excluded, fault, copying >>

\* the trees are put back as they were before the run and main() is started
\* with the --dry-run switch flipped
RunOtherWay ==
    /\ pc = "done" /\ run < MaxRuns
    /\ run' = run + 1
    /\ first' = IF run = 1 THEN stats ELSE first
    /\ stats' = ZeroStats
    /\ fs' = fs0
    /\ dry_run' = ~dry_run
    /\ pc' = "init"
    /\ pending' = {}
    /\ all_files' = << >>
    /\ UNCHANGED << mode, excluded, fs0, fault, copying >>

NextMirror ==
    \/ MirrorStart
    \/ MirrorCopyStep
    \/ MirrorCopyDone
    \/ MirrorDeleteStep
    \/ MirrorDeleteDone
    \/ MirrorReapStep
    \/ MirrorFinish

NextBackup ==
    \/ BackupStart
    \/ BackupCopyStep
    \/ BackupFinish

NextTwoWay ==
    \/ TwoWayStart
    \/ TwoWayScanSource
    \/ TwoWayScanTarget
    \/ TwoWaySyncStep
    \/ TwoWayFinish

Next ==
    \/ MirrorStart
    \/ MirrorCopyStep
    \/ MirrorCopyDone
    \/ MirrorDeleteStep
    \/ MirrorDeleteDone
    \/ MirrorReapStep
    \/ MirrorFinish
    \/ BackupStart
    \/ BackupCopyStep
    \/ BackupFinish
    \/ TwoWayStart
    \/ TwoWayScanSource
    \/ TwoWayScanTarget
    \/ TwoWaySyncStep
    \/ TwoWayFinish

\* one run of any policy, dry or not
Spec == Init /\ [][Next]_vars

\* one run of one policy over the deeper trees
SpecMirror == InitWith({"mirror"}, BOOLEAN, InitPaths) /\ [][NextMirror]_vars

SpecBackup == InitWith({"backup"}, BOOLEAN, InitPaths) /\ [][NextBackup]_vars

SpecTwoWay == InitWith({"sync"}, BOOLEAN, InitPaths) /\ [][NextTwoWay]_vars

\* a mirror run that is not a dry run, made twice in a row
SpecMirrorTwice ==
    InitWith({"mirror"}, {FALSE}, ShallowPaths) /\ [][NextMirror \/ RunAgain]_vars

\* a dry run, then the real run from the same trees
SpecDryThenReal ==
    InitWith(Modes, {TRUE}, ShallowPaths) /\ [][Next \/ RunOtherWay]_vars

NextFaulty ==
    \/ MirrorStart
    \/ MirrorCopyStepEnv
    \/ MirrorCopyDone
    \/ MirrorDeleteStepEnv
    \/ MirrorDeleteDone
    \/ MirrorReapStepEnv
    \/ MirrorFinish
    \/ BackupStart
    \/ BackupCopyStepEnv
    \/ BackupFinish
    \/ TwoWayStart
    \/ TwoWayScanSource
    \/ TwoWayScanTarget
    \/ TwoWaySyncStepEnv
    \/ TwoWayFinish

\* one run of any policy in the failing environment
SpecFaulty == InitWith(Modes, BOOLEAN, ShallowPaths) /\ [][NextFaulty]_vars

\* the actions of run_sync and of the methods it calls
NextEngine == NextFaulty \/ MirrorStartRaises \/ BackupStartRaises \/ TwoWayStartRaises

NextMain ==
    \/ MainCheckSource
    \/ NextEngine
    \/ MainExit
    \/ MainExcept

\* the program started from the command line, in the failing environment
SpecMain == InitMain /\ [][NextMain]_vars

\* one real run of any policy after the user's exclusions were added
SpecExclude == InitWith(Modes, {FALSE}, ShallowPaths) /\ [][Next \/ AddExclusion]_vars

\* run_sync, line 328: "return self.stats" hands out the dict of the object
\* itself, not a copy; what the caller of an earlier run_sync holds is
\* therefore always the object's present counters
ReturnedEarlier == stats

\* run_sync is called once more on the same FileSync object: __init__ (lines
\* 39-45) is the only place that sets the counters to zero and is not run
RunSyncAgain ==
    /\ pc = "done" /\ run < MaxRuns
    /\ run' = run + 1
    /\ first' = stats
    /\ pc' = "init"
    /\ pending' = {}
    /\ all_files' = << >>
    /\ fs0' = fs
    /\ UNCHANGED << fs, mode, dry_run, stats, excluded, fault, copying >>

\* run_sync called repeatedly on one object
SpecSameObject == Init /\ [][Next \/ RunSyncAgain]_vars

NextRace ==
    \/ Next
    \/ MirrorCopyStepRace
    \/ BackupCopyStepRace
    \/ TwoWayScanSourceRace
    \/ TwoWayScanTargetRace

\* one run of any policy while files are deleted behind its back
SpecRace == Init /\ [][NextRace]_vars

NextCopyRace ==
    \/ MirrorStart
    \/ BackupStart
    \/ TwoWayStart
    \/ TwoWayScanSource
    \/ TwoWayScanTarget
    \/ CopyCompare
    \/ OtherProcessWrites
    \/ CopyPerform
    \/ MirrorCopyDone
    \/ MirrorDeleteStep
    \/ MirrorDeleteDone
    \/ MirrorReapStep
    \/ MirrorFinish
    \/ BackupFinish
    \/ TwoWayFinish

\* one run of any policy while another process writes target files
SpecCopyRace == Init /\ [][NextCopyRace]_vars

NextLog ==
    \/ MirrorStart
    \/ MirrorCopyStepLog
    \/ MirrorCopyDone
    \/ MirrorDeleteStepLog
    \/ MirrorDeleteDone
    \/ MirrorReapStepLog
    \/ MirrorFinish
    \/ BackupStart
    \/ BackupCopyStepLog
    \/ BackupFinish
    \/ TwoWayStart
    \/ TwoWayScanSource
    \/ TwoWayScanTarget
    \/ TwoWaySyncStepLog
    \/ TwoWayFinish

\* one run of any policy with a log file whose writes may fail
SpecLog == Init /\ [][NextLog]_vars

\* a Mirror or Backup run started from any working directory
SpecCwd == InitCwd /\ [][RunSyncLogs \/ NextMirror \/ NextBackup]_vars

\* run_sync with any mode string, started from any working directory
SpecAnyMode == InitAnyMode /\ [][RunSyncLogs \/ Next \/ RunSyncRaises]_vars

\* the state stays inside the universe of the model
TypeOK ==
    /\ fs \in [Sides -> [PathU -> {NoNode, DirNode} \cup FileNodes]]
    /\ \A s \in Sides : WellFormed(fs[s])
    /\ stats \in [Counters -> Nat]
    /\ pending \subseteq PathU
    /\ fault \in CopyFaults \cup { "unlink", "rmtree" }


(***************************************************************************)
(* Vocabulary of the properties.                                           *)
(***************************************************************************)
Done == pc = "done"

\* the files of a tree a scan retains: should_exclude is false for the path
SyncedFiles(tree, side) ==
    { p \in FilePaths(tree) : ~should_exclude(excluded, side, p) }

\* both trees hold a file at p, same bytes, different modification times
SameBytesOtherMtime(f, p) ==
    /\ IsFile(f["source"], p) /\ IsFile(f["target"], p)
    /\ f["source"][p].content = f["target"][p].content
    /\ f["source"][p].mtime # f["target"][p].mtime

\* the step visits entry p of a loop that calls copy_file
CopyLoopVisits(p) ==
    /\ pc \in { "m_copy", "b_copy", "t_sync" }
    /\ p \in pending /\ pending' = pending \ {p}

\* target files at the start of the run that the source has no entry for
\* and that should_exclude lets through
ExtraFiles ==
    { p \in FilePaths(fs0["target"]) :
        ~PathExists(fs0["source"], p) /\ ~should_exclude(excluded, "target", p) }

(***************************************************************************)
(* C1: a run with dry_run=True returns the same five counters as a run     *)
(* with dry_run=False started from the same trees, under every policy.     *)
(* Stated on the second of the two runs, the first being the dry one.      *)
(***************************************************************************)
C1_DryRunSameCounters == (Done /\ run = 2) => stats = first

(***************************************************************************)
(* C2: a run with dry_run=True changes neither tree: no file written or    *)
(* deleted, no directory (target root and parents included) created.       *)
(***************************************************************************)
C2_DryRunNoMutation == dry_run => fs = fs0

(***************************************************************************)
(* C3: after a Mirror run that is not a dry run and ends with errors = 0,  *)
(* the relative file paths of the target are exactly those of the source.  *)
(* The trees are taken as the scan sees them (excluded names left out),    *)
(* the reading most favourable to the claim.                               *)
(***************************************************************************)
C3_MirrorCompleteness ==
    (Done /\ mode = "mirror" /\ ~dry_run /\ stats["errors"] = 0)
        => SyncedFiles(fs["target"], "target") = SyncedFiles(fs["source"], "source")

(***************************************************************************)
(* C4: Mirror run twice in a row (not dry), nothing changed in between:    *)
(* the second run copies, updates and deletes nothing and changes neither  *)
(* tree.                                                                   *)
(***************************************************************************)
C4_MirrorTwiceAllSkip ==
    (mode = "mirror" /\ ~dry_run /\ run = 2)
        => /\ stats["copied"] = 0 /\ stats["updated"] = 0 /\ stats["deleted"] = 0
           /\ fs = fs0

(***************************************************************************)
(* C5: under every policy, a source file and a target file at the same     *)
(* relative path with identical bytes and different modification times     *)
(* are left untouched by every step, and the step that visits the pair     *)
(* books it as skipped and changes nothing else.                           *)
(***************************************************************************)
C5_ContentOverMetadata ==
    [][ \A p \in PathU \ {Root} :
          SameBytesOtherMtime(fs, p) =>
            /\ fs'["source"][p] = fs["source"][p]
            /\ fs'["target"][p] = fs["target"][p]
            /\ (CopyLoopVisits(p) /\ ~should_exclude(excluded, "source", p))
                  => (fs' = fs /\ stats' = Bump(stats, "skipped")) ]_vars

\* C5 witness: a two-way run visited such a pair and the run is over
C5_Witness ==
    /\ Done /\ mode = "sync" /\ ~dry_run
    /\ SameBytesOtherMtime(fs0, <<"a">>)
    /\ SameBytesOtherMtime(fs, <<"a">>)
    /\ stats["skipped"] = 1

(***************************************************************************)
(* C6: Backup never deletes: at every point of a Backup run every file     *)
(* and directory the target held before the run is still there, and the    *)
(* deleted counter is 0.                                                   *)
(***************************************************************************)
C6_BackupNeverDeletes ==
    mode = "backup" =>
        /\ stats["deleted"] = 0
        /\ \A p \in PathU : fs0["target"][p].kind # "none"
                                => fs["target"][p].kind = fs0["target"][p].kind

\* C6 witness: a real Backup run ended that overwrote a file inside a
\* target directory standing where the source has a file
C6_Witness ==
    /\ Done /\ mode = "backup" /\ ~dry_run
    /\ IsFile(fs0["source"], <<"a">>)
    /\ IsFile(fs0["target"], <<"a", "a">>)
    /\ fs["target"][<<"a", "a">>] = fs0["source"][<<"a">>]
    /\ fs["target"][<<"a", "a">>] # fs0["target"][<<"a", "a">>]

(***************************************************************************)
(* C7: after a TwoWay run that is not a dry run and ends with errors = 0,  *)
(* every relative path that holds a file in either tree holds a file with  *)
(* the same bytes in both.  Excluded names are left out, the reading most  *)
(* favourable to the claim.                                                *)
(***************************************************************************)
C7_TwoWayConvergence ==
    (Done /\ mode = "sync" /\ ~dry_run /\ stats["errors"] = 0)
        => \A p \in SyncedFiles(fs["source"], "source")
                      \cup SyncedFiles(fs["target"], "target") :
              /\ IsFile(fs["source"], p) /\ IsFile(fs["target"], p)
              /\ fs["source"][p].content = fs["target"][p].content

(***************************************************************************)
(* C8: TwoWay never deletes a file or directory from either tree: at       *)
(* every point of the run each tree still holds a file where it held a     *)
(* file and a directory where it held a directory, and the deleted         *)
(* counter is 0.                                                           *)
(***************************************************************************)
C8_TwoWayNeverDeletes ==
    mode = "sync" =>
        /\ stats["deleted"] = 0
        /\ \A s \in Sides : \A p \in PathU :
              fs0[s][p].kind # "none" => fs[s][p].kind = fs0[s][p].kind

\* C8 witness: a real TwoWay run ended that wrote into both trees
C8_Witness ==
    /\ Done /\ mode = "sync" /\ ~dry_run
    /\ fs["source"] # fs0["source"]
    /\ fs["target"] # fs0["target"]
    /\ RGlob(fs0["source"]) # {} /\ RGlob(fs0["target"]) # {}

(***************************************************************************)
(* C9: in a Mirror run every source file whose path is absent from the     *)
(* target is counted as copied: with n such files and an empty target the  *)
(* stats are copied = n and 0 elsewhere.                                   *)
(***************************************************************************)
C9_MirrorCountsCopied ==
    (Done /\ mode = "mirror" /\ RGlob(fs0["target"]) = {})
        => stats = [ZeroStats EXCEPT
                      !["copied"] = Cardinality(SyncedFiles(fs0["source"], "source"))]

(***************************************************************************)
(* C10, as claimed: in a Mirror run (not dry) every target file whose      *)
(* relative path has no source entry is deleted.                           *)
(***************************************************************************)
C10_MirrorDeletesEveryExtra ==
    (Done /\ mode = "mirror" /\ ~dry_run)
        => \A p \in FilePaths(fs0["target"]) :
              ~PathExists(fs0["source"], p) => ~PathExists(fs["target"], p)

(***************************************************************************)
(* C10, amended: in a Mirror run every target file that should_exclude     *)
(* lets through and whose relative path has no entry in the source is      *)
(* counted in deleted, and is gone after the run unless it is a dry run;   *)
(* in a Backup run on the same trees that file stays a file.               *)
(***************************************************************************)
C10_MirrorDeletesExtraBackupKeeps ==
    /\ (Done /\ mode = "mirror")
          => /\ stats["deleted"] >= Cardinality(ExtraFiles)
             /\ ~dry_run => \A p \in ExtraFiles : ~PathExists(fs["target"], p)
    /\ mode = "backup" => \A p \in ExtraFiles : IsFile(fs["target"], p)

\* C10 witness: a real Mirror run ended that removed an extra target file
C10_Witness ==
    /\ Done /\ mode = "mirror" /\ ~dry_run
    /\ <<"a">> \in ExtraFiles
    /\ ~PathExists(fs["target"], <<"a">>)
    /\ stats["deleted"] = 1

(***************************************************************************)
(* C11-C20: failures, exit status, configuration, exclusions, decisions.   *)
(***************************************************************************)
\* the phases in which a loop of a policy handles one item per step
LoopPhases == { "m_copy", "m_delete", "m_reap", "b_copy", "t_sync" }

\* the failures of copying, deleting and creating a directory
ItemFailures == { "mkdir", "copy", "unlink", "rmtree" }

C12_ExitSuccessIffNoErrors ==
    [][ (pc \in {"done", "raised"} /\ pc' \in Exits)
          => (pc' = "exit_0" <=> stats["errors"] = 0) ]_vars

\* C12 amended: when run_sync returns, the exit signal is success exactly
\* when the returned errors counter is 0; when the source root does not exist
\* or an exception leaves run_sync, the signal is failure whatever the
\* counter; and the process never ends in a step of the engine, only in main.
C12_ExitFollowsReturnedErrors ==
    [][ /\ (pc = "done" /\ pc' \in Exits)
             => (pc' = "exit_0" <=> stats["errors"] = 0)
        /\ (pc \in {"main", "raised"} /\ pc' \in Exits) => pc' = "exit_1"
        /\ NextEngine => pc' \notin Exits ]_vars

\* a run that counted a failure has ended with the failure signal
C12_Witness == pc = "exit_1" /\ stats["errors"] >= 1 /\ fs # fs0

\* C13: When the source root given to the program does not exist or is not a
\* directory, the run aborts before any scanning: both trees stay as they
\* were (nothing copied, updated, deleted or created) and nothing is counted.
C13_InvalidSourceAborts ==
    ~IsDir(fs0["source"], Root) => (fs = fs0 /\ stats = ZeroStats)

\* C14: should_exclude is true for every existing path equal to, or nested at
\* any depth under, an entry of the user's exclusion set, and no such path is
\* copied, updated or deleted by the run: the entry at that path stays as it
\* was, and a source file at such a path is not written to the target.
C14_ExcludedSubtreeUntouched ==
    \A e \in excluded : \A q \in PathU :
        (IsPrefix(e[2], q) /\ PathExists(fs0[e[1]], q)) =>
            /\ should_exclude(excluded, e[1], q)
            /\ fs[e[1]][q] = fs0[e[1]][q]
            /\ (e[1] = "source" /\ IsFile(fs0["source"], q))
                   => fs["target"][q] = fs0["target"][q]

\* C15: The stats a run returns count only that run's items and do not change
\* afterwards: a second run_sync on the same object starts with all counters
\* at zero, and the value the first run returned stays as it was returned.
C15_StatsPerRunAndImmutable ==
    run >= 2 =>
        /\ pc = "init" => stats = ZeroStats
        /\ ReturnedEarlier = first

\* both trees hold a file at p, of equal size and equal modification time
SameSizeAndMtime(f, p) ==
    /\ IsFile(f["source"], p) /\ IsFile(f["target"], p)
    /\ Size(f["source"][p]) = Size(f["target"][p])
    /\ f["source"][p].mtime = f["target"][p].mtime

\* the step is the Mirror or Backup copy loop handling the file at p
MirrorOrBackupCopies(p) ==
    /\ pc \in { "m_copy", "b_copy" }
    /\ p \in pending /\ pending' = pending \ {p}
    /\ ~should_exclude(excluded, "source", p)

\* C16 as stated: in Mirror and Backup a source file and the target file at
\* the same relative path with equal size and equal modification time are a
\* Skip whatever their bytes: the step counts skipped and overwrites nothing.
C16_SizeMtimeFastPathSkips ==
    [][ \A p \in PathU \ {Root} :
          (SameSizeAndMtime(fs, p) /\ MirrorOrBackupCopies(p))
             => (fs' = fs /\ stats' = Bump(stats, "skipped")) ]_vars

\* C16 amended: equal size and equal modification time decide nothing; the
\* digests are always compared.  Such a pair is a Skip exactly when the bytes
\* are equal; when they differ the step counts updated and, unless the run is
\* a dry run, the target file gets the bytes and the modification time of the
\* source file.
C16_SizeMtimeStillHashed ==
    [][ \A p \in PathU \ {Root} :
          (SameSizeAndMtime(fs, p) /\ MirrorOrBackupCopies(p)) =>
             IF fs["source"][p].content = fs["target"][p].content
             THEN fs' = fs /\ stats' = Bump(stats, "skipped")
             ELSE /\ stats' = Bump(stats, "updated")
                  /\ fs' = IF dry_run THEN fs
                           ELSE [fs EXCEPT !["target"][p] = fs["source"][p]] ]_vars

\* a Mirror run overwrote a target file of the same size and modification
\* time as the source file but other bytes
C16_Witness ==
    /\ Done /\ mode = "mirror" /\ ~dry_run
    /\ SameSizeAndMtime(fs0, <<"a">>)
    /\ fs0["source"][<<"a">>].content # fs0["target"][<<"a">>].content
    /\ fs["target"][<<"a">>] = fs0["source"][<<"a">>]
    /\ stats["updated"] = 1

\* the step is the TwoWay loop handling path p, a file in both trees
TwoWayHandlesPair(p) ==
    /\ pc = "t_sync"
    /\ p \in pending /\ pending' = pending \ {p}
    /\ IsFile(fs["source"], p) /\ IsFile(fs["target"], p)

\* C17 as stated: in TwoWay, for a path that is a file in both trees with
\* equal modification times, no action is taken: neither file is overwritten,
\* even when the contents differ.
C17_TwoWayTieNoAction ==
    [][ \A p \in PathU \ {Root} :
          (TwoWayHandlesPair(p) /\ fs["source"][p].mtime = fs["target"][p].mtime)
             => fs' = fs ]_vars

\* C17 amended: on equal modification times the source file is the one kept.
\* The source tree is never written; with equal bytes the pair is counted as
\* skipped and nothing is written; with different bytes the pair is counted
\* as updated and, unless the run is a dry run, the target file is overwritten
\* with the source file.
C17_TwoWayTieSourceWins ==
    [][ \A p \in PathU \ {Root} :
          (TwoWayHandlesPair(p) /\ fs["source"][p].mtime = fs["target"][p].mtime) =>
             IF fs["source"][p].content = fs["target"][p].content
             THEN fs' = fs /\ stats' = Bump(stats, "skipped")
             ELSE /\ stats' = Bump(stats, "updated")
                  /\ fs' = IF dry_run THEN fs
                           ELSE [fs EXCEPT !["target"][p] = fs["source"][p]] ]_vars

\* a TwoWay run met a tie with different bytes and the target lost its bytes
C17_Witness ==
    /\ Done /\ mode = "sync" /\ ~dry_run
    /\ IsFile(fs0["source"], <<"a">>) /\ IsFile(fs0["target"], <<"a">>)
    /\ fs0["source"][<<"a">>].mtime = fs0["target"][<<"a">>].mtime
    /\ fs0["source"][<<"a">>].content # fs0["target"][<<"a">>].content
    /\ fs["source"][<<"a">>] = fs0["source"][<<"a">>]
    /\ fs["target"][<<"a">>] = fs0["source"][<<"a">>]

\* the side whose file at p is the later one, for a path that is a file in
\* both trees of f with different modification times
NewerSide(f, p) ==
    IF f["target"][p].mtime > f["source"][p].mtime THEN "target" ELSE "source"

\* C18: after a TwoWay run that is not a dry run, for every path that
\* should_exclude lets through: if both trees held a file there with
\* different bytes and different modification times, both trees now hold the
\* bytes of the later one; and if only one tree had an entry there, a file,
\* the other tree now holds that file's bytes at that path.
C18_TwoWayNewerWinsAndOneSidedCopied ==
    (Done /\ mode = "sync" /\ ~dry_run) =>
        \A p \in PathU \ {Root} :
            ~NameExcluded(Name(p)) =>
                /\ ( /\ IsFile(fs0["source"], p) /\ IsFile(fs0["target"], p)
                     /\ fs0["source"][p].content # fs0["target"][p].content
                     /\ fs0["source"][p].mtime # fs0["target"][p].mtime )
                      => \A s \in Sides :
                            /\ IsFile(fs[s], p)
                            /\ fs[s][p].content = fs0[NewerSide(fs0, p)][p].content
                /\ \A s \in Sides :
                      (IsFile(fs0[s], p) /\ ~PathExists(fs0[Other(s)], p))
                         => /\ IsFile(fs[Other(s)], p)
                            /\ fs[Other(s)][p].content = fs0[s][p].content

\* the failures of computing a digest
HashFailures == { "hash_source", "hash_target", "hash_both" }

\* C19: When the digest of the source file, of the target file or of both
\* cannot be computed, the pair is treated as different: the step never
\* counts the item as skipped.
C19_UnreadableNeverSkipped ==
    [][ (pc \in LoopPhases /\ pending # {} /\ fault' \in HashFailures)
           => stats'["skipped"] = stats["skipped"] ]_vars

\* C20: A file that cannot be stat'ed during scanning (deleted between
\* listing and stat) is dropped from the scan and the run goes on under every
\* policy: no exception leaves run_sync.
C20_VanishedFileNeverRaises == pc # "raised"

(***************************************************************************)
(* C21-C30: excluded directories, order of a Mirror run, directory         *)
(* cleanup, races, counters, frame conditions, invalid mode.               *)
(***************************************************************************)
\* p is a file of tree side of f located under a directory of that tree for
\* which should_exclude is true
UnderExcludedDir(f, side, p) ==
    /\ IsFile(f[side], p)
    /\ \E d \in PathU \ {Root, p} :
          /\ IsPrefix(d, p)
          /\ IsDir(f[side], d)
          /\ should_exclude(excluded, side, d)

\* C21: The scan does not descend into an excluded directory: a file that was
\* located under a directory for which should_exclude is true is never
\* copied, updated or deleted: the entries at its relative path stay, in both
\* trees, as they were at the start of the run.
C21_NoDescentIntoExcludedDir ==
    \A side \in Sides : \A p \in PathU \ {Root} :
        UnderExcludedDir(fs0, side, p) =>
            /\ fs["source"][p] = fs0["source"][p]
            /\ fs["target"][p] = fs0["target"][p]

\* the step writes a file of the target
FileWritten ==
    \E p \in PathU : IsFile(fs'["target"], p) /\ fs'["target"][p] # fs["target"][p]

\* the step removes a file / a directory of the target
FileRemoved == \E p \in PathU : IsFile(fs["target"], p) /\ ~PathExists(fs'["target"], p)

DirRemoved == \E p \in PathU : IsDir(fs["target"], p) /\ ~PathExists(fs'["target"], p)

\* the step counts under counter c
Counted(c) == stats'[c] > stats[c]

\* the order in which mirror_sync passes through its loops
MirrorRank(at) ==
    CASE at = "init" -> 0
      [] at = "m_copy" -> 1
      [] at = "m_delete" -> 2
      [] at = "m_reap" -> 3
      [] OTHER -> 4

\* C22: In a Mirror run the operations are ordered: files are written (and
\* copied, updated, skipped counted) only in the copy loop, files are removed
\* only in the delete loop, directories are removed only in the cleanup loop,
\* and the run passes through the three loops in this order without ever
\* going back.
C22_MirrorCopyThenDeleteThenReap ==
    [][ /\ MirrorRank(pc') >= MirrorRank(pc)
        /\ (FileWritten \/ Counted("copied") \/ Counted("updated") \/ Counted("skipped"))
              => pc = "m_copy"
        /\ FileRemoved => pc = "m_delete"
        /\ DirRemoved => pc = "m_reap"
        /\ Counted("deleted") => pc \in { "m_delete", "m_reap" } ]_vars

\* a Mirror run wrote a file, then deleted a file, then removed the directory
\* that file was in
C22_Witness ==
    /\ Done /\ mode = "mirror" /\ ~dry_run
    /\ IsFile(fs0["target"], <<".g", "a">>)
    /\ ~PathExists(fs["target"], <<".g">>)
    /\ stats["updated"] = 1 /\ stats["deleted"] = 2 /\ stats["errors"] = 0

\* directories of the target, below its root, that are empty and whose
\* relative path the source has no entry for
EmptyOrphanDirs(f) ==
    { p \in PathU \ {Root} :
        /\ IsDir(f["target"], p)
        /\ ~HasEntries(f["target"], p)
        /\ ~PathExists(f["source"], p) }

\* C23: After a Mirror run that is not a dry run and ends with errors = 0 the
\* target holds no empty directory whose relative path is absent from the
\* source, directories that became empty during the run included.
C23_MirrorLeavesNoEmptyOrphanDir ==
    (Done /\ mode = "mirror" /\ ~dry_run /\ stats["errors"] = 0)
        => EmptyOrphanDirs(fs) = {}

\* the cleanup removed a/a and then a, which held nothing but a/a
C23_Witness ==
    /\ Done /\ mode = "mirror" /\ ~dry_run /\ stats["errors"] = 0
    /\ IsDir(fs0["target"], <<"a", "a">>)
    /\ ~PathExists(fs0["target"], <<"a", "a", "a">>)
    /\ ~PathExists(fs0["source"], <<"a">>)
    /\ ~PathExists(fs["target"], <<"a">>)
    /\ stats["deleted"] = 2

\* nothing exists below p in the tree
NothingBelow(tree, p) ==
    \A q \in PathU : (q # p /\ IsPrefix(p, q)) => ~PathExists(tree, q)

\* C24: Every directory removal of a run happens under the Mirror policy, in
\* the target, on a directory strictly below the root that holds nothing at
\* the moment of the removal and whose relative path has no entry in the
\* source; no directory of the source and neither root is ever removed.
C24_OnlyEmptyOrphanDirsRemoved ==
    [][ /\ \A p \in PathU :
              (IsDir(fs["target"], p) /\ ~IsDir(fs'["target"], p)) =>
                  /\ mode = "mirror"
                  /\ pc = "m_reap"
                  /\ p # Root
                  /\ NothingBelow(fs["target"], p)
                  /\ ~PathExists(fs["source"], p)
        /\ \A p \in PathU : IsDir(fs["source"], p) => IsDir(fs'["source"], p) ]_vars

\* a Mirror run removed the empty directory a of the target; the root stays
C24_Witness ==
    /\ Done /\ mode = "mirror" /\ ~dry_run
    /\ IsDir(fs0["target"], <<"a">>)
    /\ ~PathExists(fs["target"], <<"a">>)
    /\ IsDir(fs["target"], Root)
    /\ stats["deleted"] >= 1

\* C25: Last writer wins under a race: when another process has written the
\* target file after copy_file compared it and before copy_file copies, the
\* copy of a run that is not a dry run still overwrites the target: the
\* target ends with the source file, the item is counted as updated and no
\* error is counted.
C25_RaceLastWriterWins ==
    [][ (copying.from # "none" /\ copying.raced /\ copying'.from = "none" /\ ~dry_run)
          => /\ fs'[Other(copying.from)][copying.p] = fs[copying.from][copying.p]
             /\ stats' = Bump(stats, "updated") ]_vars

\* a Backup run lost the race and overwrote what the other process wrote
C25_Witness ==
    /\ mode = "backup" /\ ~dry_run
    /\ copying.from = "none" /\ copying.raced /\ copying.p = <<"a">>
    /\ copying.seen.kind = "file"
    /\ fs["target"][<<"a">>] = fs["source"][<<"a">>]
    /\ stats["updated"] = 1 /\ stats["errors"] = 0

\* C26: Every call of copy_file, delete_file or delete_directory increments
\* exactly one of the five counters by exactly one and leaves the other four
\* unchanged: a step of a loop that changes the counters changes them by one
\* increment of one counter.
C26_OneCounterPerCall ==
    [][ (pc \in LoopPhases /\ stats' # stats)
           => \E c \in Counters : stats' = Bump(stats, c) ]_vars

\* C27: After a Mirror run that is not a dry run and ends with errors = 0,
\* every source file should_exclude lets through has a file with the same
\* bytes at the same relative path in the target, whatever the target held
\* at that path before.
C27_MirrorCopiesEverySourceFile ==
    (Done /\ mode = "mirror" /\ ~dry_run /\ stats["errors"] = 0) =>
        \A p \in SyncedFiles(fs["source"], "source") :
            /\ IsFile(fs["target"], p)
            /\ fs["target"][p].content = fs["source"][p].content

\* C28 as stated: Mirror and Backup leave the source tree unchanged, dry run
\* or not: nothing under the source root is created, modified or deleted.
C28_SourceUnchanged ==
    mode \in { "mirror", "backup" } => fs["source"] = fs0["source"]

\* C28 amended: no step of a Mirror or Backup run, dry run or not, creates,
\* modifies or deletes anything under the source root except the run's own
\* log file, which run_sync writes into the working directory and which is
\* under the source root when the program is run from there.
C28_SourceUnchangedButLog ==
    [][ (mode \in { "mirror", "backup" })
          => (\A p \in PathU \ {LogPath} : fs["source"][p] = fs'["source"][p]) ]_vars

\* a Backup run started from the source root: the source file was copied and
\* is as it was, and the log file sits in the source root
C28_Witness ==
    /\ Done /\ mode = "backup" /\ ~dry_run
    /\ IsFile(fs["source"], LogPath)
    /\ IsFile(fs0["source"], <<"a">>)
    /\ fs["source"][<<"a">>] = fs0["source"][<<"a">>]
    /\ fs["target"][<<"a">>] = fs0["source"][<<"a">>]
    /\ fs0["target"][<<"a">>] # fs0["source"][<<"a">>]

\* C29 as stated: Mirror never removes a target path for which should_exclude
\* is true: an excluded file or directory of the target, with or without a
\* counterpart in the source, empty or not, still exists when the run ends.
C29_MirrorKeepsExcludedTargetPaths ==
    (mode = "mirror" /\ Done) =>
        \A p \in PathU \ {Root} :
            (PathExists(fs0["target"], p) /\ should_exclude(excluded, "target", p))
                => PathExists(fs["target"], p)

\* C30: run_sync with a mode other than mirror, backup or sync raises an
\* error: it never enters a sync method, nothing is copied, deleted or
\* created in either tree (the line the run writes to its log file aside),
\* and all five counters stay as they were.
C30_UnknownModeRaisesUntouched ==
    (mode \notin Modes) =>
        /\ pc \in { "run_sync", "init", "raised" }
        /\ stats = ZeroStats
        /\ \A s \in Sides : \A p \in PathU \ {LogPath} : fs[s][p] = fs0[s][p]

\* run_sync has raised for an unknown mode although a sync would have had a
\* target root to create and a file to copy
C30_Witness ==
    /\ pc = "raised" /\ mode \notin Modes /\ ~dry_run
    /\ IsFile(fs["source"], <<"a">>)
    /\ ~PathExists(fs["target"], Root)

=============================================================================
